---- MODULE Spec2Model ----
(***************************************************************************)
(* A model of allianceutils/api/permissions.py: the three permission       *)
(* policies SimpleDjangoObjectPermissions, GenericDjangoViewsetPermissions *)
(* and GenericDjangoViewsetWithoutModelPermissions.                        *)
(*                                                                         *)
(* State: the class attribute default_actions_to_perms_map, the per        *)
(* instance _saved_actions_to_perms_map of every policy instance, the      *)
(* _saved_permission_list_actions attribute that get_list_actions attaches *)
(* to viewset classes, and the record of the last call made (its inputs,   *)
(* what it returned or raised, what it invoked on the viewset).            *)
(***************************************************************************)
EXTENDS Integers, Sequences, FiniteSets, TLC

VARIABLES
    default_actions_to_perms_map,   \* GenericDjangoViewsetPermissions.default_actions_to_perms_map
    saved_actions_to_perms_map,     \* policy instance -> its _saved_actions_to_perms_map
    saved_permission_list_actions,  \* viewset class -> its own _saved_permission_list_actions
    discoveries,                    \* viewset class -> times the route scan ran for it
    call                            \* the last call: inputs and outcome

vars == <<default_actions_to_perms_map, saved_actions_to_perms_map,
          saved_permission_list_actions, discoveries, call>>

----------------------------------------------------------------------------
(* Bounds of the model *)

\* A principal holds at most this many permissions (global and object-scoped together).
MaxPerms == 2

\* The ghost counter of route scans per class stops counting here.
MaxDiscoveries == 2

----------------------------------------------------------------------------
(* Python values *)

\* Python's None, as the value of viewset.action
None == "<None>"

\* An attribute that is not set at all (getattr falls back to its default,
\* plain attribute access raises AttributeError)
NoAttr == "<no attribute>"

\* What a call did: returned a value or raised an exception
Return(v) == [kind |-> "return", val |-> v]

Raise(e) == [kind |-> "raise", val |-> e]

\* all(...) over a list
RECURSIVE SeqToSet(_)
SeqToSet(s) == IF s = <<>> THEN {} ELSE {Head(s)} \cup SeqToSet(Tail(s))

----------------------------------------------------------------------------
(* The principal: request.user *)

\* The permission strings principals may hold
PermUniverse == {"blog.view_post", "shop.view_item", "reports.run"}

\* A principal: the permissions held globally and those held on the object at hand
Users == {u \in [global_perms : SUBSET PermUniverse, obj_perms : SUBSET PermUniverse] :
            Cardinality(u.global_perms) + Cardinality(u.obj_perms) <= MaxPerms}

\* user.has_perm(perm) and user.has_perm(perm, obj); obj is None or "obj"
has_perm(user, perm, obj) ==
    IF obj = None THEN perm \in user.global_perms ELSE perm \in user.obj_perms

\* user.has_perms(perm_list, obj): every permission of the list is held
has_perms(user, perm_list, obj) ==
    \A i \in 1..Len(perm_list) : has_perm(user, perm_list[i], obj)

----------------------------------------------------------------------------
(* SimpleDjangoObjectPermissions *)

\* view.permission_required of the views that use the simple policy
PermissionsRequired == PermUniverse

\* SimpleDjangoObjectPermissions.has_permission
SimpleHasPermission(user, permission_required) ==
    Return(has_perm(user, permission_required, None))

SimpleHasObjectPermission_NoAssert(user, permission_required) ==
    Return(has_perm(user, permission_required, "obj")
           \/ has_perm(user, permission_required, None))

\* SimpleDjangoObjectPermissions.has_object_permission: the assert statement,
\* then the return
SimpleHasObjectPermission(user, permission_required) ==
    IF has_perm(user, permission_required, "obj") /\ has_perm(user, permission_required, None)
    THEN Raise("AssertionError")
    ELSE Return(has_perm(user, permission_required, "obj")
                \/ has_perm(user, permission_required, None))

----------------------------------------------------------------------------
(* Permission templates and the viewset classes *)

\* A permission string is kept as its pieces; the pieces "%(app_label)s" and
\* "%(model_name)s" are the conversion specifiers of the % operator.
\* perm % kwargs: every specifier replaced by the value of its key, the rest kept.
RECURSIVE PercentFormat(_, _)
PercentFormat(perm, kwargs) ==
    IF perm = <<>> THEN ""
    ELSE (IF Head(perm) = "%(app_label)s" THEN kwargs.app_label
          ELSE IF Head(perm) = "%(model_name)s" THEN kwargs.model_name
          ELSE Head(perm))
         \o PercentFormat(Tail(perm), kwargs)

\* '%(app_label)s.<verb>_%(model_name)s'
Template(verb) == <<"%(app_label)s", "." \o verb \o "_", "%(model_name)s">>

\* The class attribute default_actions_to_perms_map
DefaultActionsToPermsMap ==
    ("list" :> <<Template("view")>>) @@
    ("retrieve" :> <<Template("view")>>) @@
    ("create" :> <<Template("add")>>) @@
    ("update" :> <<Template("change")>>) @@
    ("partial_update" :> <<Template("change")>>) @@
    ("destroy" :> <<Template("delete")>>)

\* The class attribute default_list_routes
default_list_routes == {"list", "create"}

\* The viewset classes of the host application
ViewsetClasses == {"PostViewSet", "ArchiveViewSet", "ItemViewSet"}

\* viewset_class.__mro__ without object: ArchiveViewSet subclasses PostViewSet
MRO(viewset_class) ==
    IF viewset_class = "ArchiveViewSet" THEN <<"ArchiveViewSet", "PostViewSet">>
    ELSE <<viewset_class>>

\* view.get_queryset().model._meta of each viewset class
ModelMeta(viewset_class) ==
    IF viewset_class = "ItemViewSet"
    THEN [app_label |-> "shop", model_name |-> "item"]
    ELSE [app_label |-> "blog", model_name |-> "post"]

\* A method without routing attributes (no bind_to_methods, no mapping, no detail)
PlainMethod ==
    [has_bind_to_methods |-> FALSE, bind_to_methods |-> <<>>,
     has_mapping |-> FALSE, mapping |-> {}, detail |-> NoAttr]

\* A method decorated by DRF >= 3.9: .mapping (keyed by verb) and .detail
Routed(verbs, detail) ==
    [has_bind_to_methods |-> FALSE, bind_to_methods |-> <<>>,
     has_mapping |-> TRUE, mapping |-> verbs, detail |-> detail]

\* A method decorated by DRF < 3.9: .bind_to_methods and .detail
RoutedLegacy(verbs, detail) ==
    [has_bind_to_methods |-> TRUE, bind_to_methods |-> verbs,
     has_mapping |-> FALSE, mapping |-> {}, detail |-> detail]

\* The attributes each viewset class defines itself
ClassDict(viewset_class) ==
    CASE viewset_class = "PostViewSet" ->
            ("list" :> PlainMethod) @@ ("create" :> PlainMethod) @@
            ("retrieve" :> PlainMethod) @@ ("destroy" :> PlainMethod) @@
            ("recent" :> Routed({"get"}, "False")) @@
            ("peek" :> Routed({"head"}, "False")) @@
            ("publish" :> Routed({"post"}, "True")) @@
            ("purge" :> Routed({"delete"}, "False")) @@
            ("legacy" :> RoutedLegacy(<<"GET", "POST">>, "False"))
      [] viewset_class = "ArchiveViewSet" ->
            ("export" :> Routed({"get"}, "False")) @@
            ("recent" :> Routed({"get"}, "True"))
      [] viewset_class = "ItemViewSet" ->
            ("list" :> PlainMethod) @@ ("retrieve" :> PlainMethod) @@
            ("search" :> Routed({"get", "post"}, "False")) @@
            ("stats" :> RoutedLegacy(<<"HEAD", "GET">>, "False")) @@
            ("loose" :> Routed({"get"}, NoAttr))

\* dir(viewset_class): the names defined by the class or a base
Dir(viewset_class) ==
    UNION {DOMAIN ClassDict(MRO(viewset_class)[i]) : i \in 1..Len(MRO(viewset_class))}

\* getattr(viewset_class, methodname): the first definition along the MRO
GetMethod(viewset_class, methodname) ==
    LET mro == MRO(viewset_class)
        i == CHOOSE i \in 1..Len(mro) :
                /\ methodname \in DOMAIN ClassDict(mro[i])
                /\ \A j \in 1..(i - 1) : methodname \notin DOMAIN ClassDict(mro[j])
    IN ClassDict(mro[i])[methodname]

\* str.lower() on the verbs that occur
Lower(m) ==
    CASE m = "GET" -> "get"
      [] m = "POST" -> "post"
      [] m = "HEAD" -> "head"
      [] m = "DELETE" -> "delete"
      [] OTHER -> m

----------------------------------------------------------------------------
(* GenericDjangoViewsetPermissions *)

\* Instances of the policy: of the class itself (no actions_to_perms_map) and
\* of a subclass whose actions_to_perms_map frees 'create' (the docstring's
\* example), replaces 'retrieve' and maps two decorated routes
PolicyInstances == {"plain", "custom"}

\* getattr(self, 'actions_to_perms_map', {})
actions_to_perms_map(self) ==
    CASE self = "plain" -> <<>>
      [] self = "custom" ->
            ("create" :> <<>>) @@
            ("retrieve" :> << <<"reports.run">> >>) @@
            ("recent" :> <<Template("view"), <<"reports.run">> >>) @@
            ("export" :> <<Template("view")>>)

\* dict.update(): the keys of the second map replace or extend the first
DictUpdate(d, other) ==
    [k \in DOMAIN d \cup DOMAIN other |-> IF k \in DOMAIN other THEN other[k] ELSE d[k]]

\* _saved_actions_to_perms_map is None
NoSavedMap == [is_none |-> TRUE, map |-> <<>>]

SavedMap(m) == [is_none |-> FALSE, map |-> m]

ClassDefaultAfterMerge_InPlace(class_default, override) ==
    DictUpdate(class_default, override)

\* What get_actions_to_perms_map leaves in the class attribute
\* default_actions_to_perms_map: the update is applied to a copy() of it
ClassDefaultAfterMerge(class_default, override) ==
    class_default

\* get_actions_to_perms_map: the value of self._saved_actions_to_perms_map
\* after the call, which is also what the call returns
get_actions_to_perms_map(saved, class_default, override) ==
    IF saved.is_none
    THEN SavedMap(DictUpdate(class_default, override))
    ELSE saved

get_permissions_for_action_DefaultEmpty(perms_map, action, viewset_class) ==
    IF action \in DOMAIN perms_map
    THEN Return([i \in 1..Len(perms_map[action]) |->
                    PercentFormat(perms_map[action][i], ModelMeta(viewset_class))])
    ELSE Return(<<>>)

\* get_permissions_for_action, given the map get_actions_to_perms_map returned
get_permissions_for_action(perms_map, action, viewset_class) ==
    IF action \in DOMAIN perms_map
    THEN Return([i \in 1..Len(perms_map[action]) |->
                    PercentFormat(perms_map[action][i], ModelMeta(viewset_class))])
    ELSE Raise("ImproperlyConfigured")

\* not hasattr(viewset_class, '_saved_permission_list_actions')
NoSavedListActions == [has |-> FALSE, set |-> {}]

\* hasattr(viewset_class, '_saved_permission_list_actions'): the class or a base has it
HasSavedListActions(saved, viewset_class) ==
    \E i \in 1..Len(MRO(viewset_class)) : saved[MRO(viewset_class)[i]].has

\* viewset_class._saved_permission_list_actions: the first one along the MRO
GetSavedListActions(saved, viewset_class) ==
    LET mro == MRO(viewset_class)
        i == CHOOSE i \in 1..Len(mro) :
                /\ saved[mro[i]].has
                /\ \A j \in 1..(i - 1) : ~saved[mro[j]].has
    IN saved[mro[i]].set

\* all(m.lower() in ('header', 'get', 'post',) for m in http_methods)
AllVerbsAllowed(verbs) ==
    \A m \in verbs : Lower(m) \in {"header", "get", "post"}

\* The body of the scan loop: whether methodname is added to the set
IsListRoute(method) ==
    LET http_methods == IF method.has_bind_to_methods THEN method.bind_to_methods ELSE <<>>
        truthy == http_methods # <<>>
    IN \/ /\ truthy
          /\ AllVerbsAllowed(SeqToSet(http_methods))
          /\ method.detail = "False"
       \/ /\ ~truthy
          /\ method.has_mapping
          /\ AllVerbsAllowed(method.mapping)
          /\ method.detail = "False"

\* The set the scan builds for a class: default_list_routes and every
\* method of dir(viewset_class) the loop adds
ScanListActions(viewset_class) ==
    default_list_routes
    \cup {methodname \in Dir(viewset_class) : IsListRoute(GetMethod(viewset_class, methodname))}

\* get_list_actions: the _saved_permission_list_actions attributes after the call
SavedAfterGetListActions(saved, viewset_class) ==
    IF ~HasSavedListActions(saved, viewset_class)
    THEN [saved EXCEPT ![viewset_class] = [has |-> TRUE, set |-> ScanListActions(viewset_class)]]
    ELSE saved

\* get_list_actions: the set it returns
get_list_actions(saved, viewset_class) ==
    GetSavedListActions(SavedAfterGetListActions(saved, viewset_class), viewset_class)

\* viewset.action of the requests: unset, None, the standard actions, 'metadata'
\* (a direct OPTIONS call) and the names of decorated routes
ViewsetActions == {NoAttr, None, "list", "create", "retrieve",
                   "metadata", "recent", "export"}

\* request.method and settings.DEBUG
Requests == [method : {"GET", "OPTIONS"}, DEBUG : BOOLEAN]

\* What the viewset's get_object() does: the object is missing, or it is
\* found and returned, or it is found and check_object_permissions is run
\* on it first (the usage PermissionRequiredAPIMixin documents)
GetObjectKinds == {"missing", "unchecked", "checked"}

\* has_object_permission, given the map get_actions_to_perms_map returns.
\* steps: what the call did before it ended
has_object_permission(perms_map, request, action_attr, viewset_class, user) ==
    LET perms == get_permissions_for_action(perms_map, action_attr, viewset_class)
    IN IF action_attr = NoAttr
       THEN [result |-> Raise("AttributeError"), steps |-> {}]
       ELSE IF request.method = "OPTIONS" /\ request.DEBUG
       THEN [result |-> Return(TRUE), steps |-> {}]
       ELSE IF perms.kind = "raise"
       THEN [result |-> perms, steps |-> {"map"}]
       ELSE [result |-> Return(has_perms(user, perms.val, "obj")), steps |-> {"map", "user"}]

\* viewset.get_object() as called from has_permission: the lookup, then (when
\* the viewset checks) check_object_permissions, which asks
\* has_object_permission about the same request and object
get_object(kind, perms_map, request, action_attr, viewset_class, user) ==
    LET permitted == has_object_permission(perms_map, request, action_attr,
                                           viewset_class, user).result
    IN IF kind = "missing" THEN Raise("Http404")
       ELSE IF kind = "checked" /\ permitted.kind = "raise" THEN permitted
       ELSE IF kind = "checked" /\ ~permitted.val THEN Raise("PermissionDenied")
       ELSE Return("obj")

has_permission_BypassIgnoresDebug(perms_map, list_actions, request, action_attr, viewset_class, user, kind) ==
    LET action == IF action_attr = NoAttr THEN None ELSE action_attr
        perms == get_permissions_for_action(perms_map, action, viewset_class)
        obj == get_object(kind, perms_map, request, action_attr, viewset_class, user)
    IN IF request.method = "OPTIONS"
       THEN [result |-> Return(TRUE), steps |-> {}]
       ELSE IF perms.kind = "raise"
       THEN [result |-> perms, steps |-> {"user", "map"}]
       ELSE IF has_perms(user, perms.val, None)
       THEN [result |-> Return(TRUE), steps |-> {"user", "map"}]
       ELSE IF action \notin list_actions
       THEN [result |-> IF obj.kind = "raise" THEN obj ELSE Return(TRUE),
             steps |-> {"user", "map", "list", "get_object"}]
       ELSE [result |-> Return(FALSE), steps |-> {"user", "map", "list"}]

has_permission_ObjectFirst(perms_map, list_actions, request, action_attr, viewset_class, user, kind) ==
    LET action == IF action_attr = NoAttr THEN None ELSE action_attr
        perms == get_permissions_for_action(perms_map, action, viewset_class)
        obj == get_object(kind, perms_map, request, action_attr, viewset_class, user)
    IN IF request.method = "OPTIONS" /\ request.DEBUG
       THEN [result |-> Return(TRUE), steps |-> {}]
       ELSE IF perms.kind = "raise"
       THEN [result |-> perms, steps |-> {"user", "map"}]
       ELSE IF action \notin list_actions
       THEN [result |-> IF obj.kind = "raise" THEN obj ELSE Return(TRUE),
             steps |-> {"user", "map", "list", "get_object"}]
       ELSE [result |-> Return(has_perms(user, perms.val, None)),
             steps |-> {"user", "map", "list"}]

has_permission_SwallowFailure(perms_map, list_actions, request, action_attr, viewset_class, user, kind) ==
    LET action == IF action_attr = NoAttr THEN None ELSE action_attr
        perms == get_permissions_for_action(perms_map, action, viewset_class)
        obj == get_object(kind, perms_map, request, action_attr, viewset_class, user)
    IN IF request.method = "OPTIONS" /\ request.DEBUG
       THEN [result |-> Return(TRUE), steps |-> {}]
       ELSE IF perms.kind = "raise"
       THEN [result |-> perms, steps |-> {"user", "map"}]
       ELSE IF has_perms(user, perms.val, None)
       THEN [result |-> Return(TRUE), steps |-> {"user", "map"}]
       ELSE IF action \notin list_actions
       THEN [result |-> Return(obj.kind # "raise"),
             steps |-> {"user", "map", "list", "get_object"}]
       ELSE [result |-> Return(FALSE), steps |-> {"user", "map", "list"}]

has_permission_NoListActions(perms_map, list_actions, request, action_attr, viewset_class, user, kind) ==
    LET action == IF action_attr = NoAttr THEN None ELSE action_attr
        perms == get_permissions_for_action(perms_map, action, viewset_class)
        obj == get_object(kind, perms_map, request, action_attr, viewset_class, user)
    IN IF request.method = "OPTIONS" /\ request.DEBUG
       THEN [result |-> Return(TRUE), steps |-> {}]
       ELSE IF perms.kind = "raise"
       THEN [result |-> perms, steps |-> {"user", "map"}]
       ELSE IF has_perms(user, perms.val, None)
       THEN [result |-> Return(TRUE), steps |-> {"user", "map"}]
       ELSE [result |-> IF obj.kind = "raise" THEN obj ELSE Return(TRUE),
             steps |-> {"user", "map", "get_object"}]

\* has_permission, given the map get_actions_to_perms_map returns and the set
\* get_list_actions returns (each is asked for only on the paths that list it
\* in steps). steps: what the call did before it ended
has_permission(perms_map, list_actions, request, action_attr, viewset_class, user, kind) ==
    LET action == IF action_attr = NoAttr THEN None ELSE action_attr
        perms == get_permissions_for_action(perms_map, action, viewset_class)
        obj == get_object(kind, perms_map, request, action_attr, viewset_class, user)
    IN IF request.method = "OPTIONS" /\ request.DEBUG
       THEN [result |-> Return(TRUE), steps |-> {}]
       ELSE IF perms.kind = "raise"
       THEN [result |-> perms, steps |-> {"user", "map"}]
       ELSE IF has_perms(user, perms.val, None)
       THEN [result |-> Return(TRUE), steps |-> {"user", "map"}]
       ELSE IF action \notin list_actions
       THEN [result |-> IF obj.kind = "raise" THEN obj ELSE Return(TRUE),
             steps |-> {"user", "map", "list", "get_object"}]
       ELSE [result |-> Return(FALSE), steps |-> {"user", "map", "list"}]

----------------------------------------------------------------------------
(* GenericDjangoViewsetWithoutModelPermissions *)

\* Instances of the model-less policy: of the class itself (actions_to_perms_map
\* left at its empty default) and of a subclass that supplies a map
WithoutModelInstances == {"unconfigured", "reports"}

\* getattr(self, 'actions_to_perms_map') of the model-less policy
WithoutModel_actions_to_perms_map(self) ==
    CASE self = "unconfigured" -> <<>>
      [] self = "reports" ->
            ("retrieve" :> << <<"reports.run">> >>) @@
            ("list" :> << <<"reports.run">>, <<"blog.view_post">> >>) @@
            ("recent" :> <<Template("view")>>) @@
            ("create" :> <<>>)

\* The pieces of a permission string joined, nothing substituted
RECURSIVE Verbatim(_)
Verbatim(perm) ==
    IF perm = <<>> THEN "" ELSE Head(perm) \o Verbatim(Tail(perm))

\* get_actions_to_perms_map of the model-less policy: the value of
\* self._saved_actions_to_perms_map after the call
WithoutModel_get_actions_to_perms_map(saved, override) ==
    IF saved.is_none THEN SavedMap(override) ELSE saved

\* get_permissions_for_action of the model-less policy
WithoutModel_get_permissions_for_action(perms_map, action) ==
    IF action \in DOMAIN perms_map
    THEN Return([i \in 1..Len(perms_map[action]) |-> Verbatim(perms_map[action][i])])
    ELSE Raise("ImproperlyConfigured")

WithoutModel_has_permission_DebugOptions(perms_map, request, action_attr, user) ==
    LET action == IF action_attr = NoAttr THEN None ELSE action_attr
        perms == WithoutModel_get_permissions_for_action(perms_map, action)
    IN IF request.method = "OPTIONS" /\ request.DEBUG
       THEN [result |-> Return(TRUE), steps |-> {}]
       ELSE IF perms.kind = "raise"
       THEN [result |-> perms, steps |-> {"user", "map"}]
       ELSE [result |-> Return(has_perms(user, perms.val, None)), steps |-> {"user", "map"}]

\* has_permission of the model-less policy
WithoutModel_has_permission(perms_map, request, action_attr, user) ==
    LET action == IF action_attr = NoAttr THEN None ELSE action_attr
        perms == WithoutModel_get_permissions_for_action(perms_map, action)
    IN IF action = None
       THEN [result |-> Return(TRUE), steps |-> {}]
       ELSE IF perms.kind = "raise"
       THEN [result |-> perms, steps |-> {"user", "map"}]
       ELSE [result |-> Return(has_perms(user, perms.val, None)), steps |-> {"user", "map"}]

\* has_object_permission of the model-less policy
WithoutModel_has_object_permission(perms_map, request, action_attr, user) ==
    LET perms == WithoutModel_get_permissions_for_action(perms_map, action_attr)
    IN IF action_attr = NoAttr
       THEN [result |-> Raise("AttributeError"), steps |-> {}]
       ELSE IF perms.kind = "raise"
       THEN [result |-> perms, steps |-> {"map"}]
       ELSE [result |-> Return(has_perms(user, perms.val, "obj")), steps |-> {"map", "user"}]

----------------------------------------------------------------------------
(* The state machine *)

AllInstances == PolicyInstances \cup WithoutModelInstances

Init ==
    /\ default_actions_to_perms_map = DefaultActionsToPermsMap
    /\ saved_actions_to_perms_map = [self \in AllInstances |-> NoSavedMap]
    /\ saved_permission_list_actions = [c \in ViewsetClasses |-> NoSavedListActions]
    /\ discoveries = [c \in ViewsetClasses |-> 0]
    /\ call = [op |-> "none"]

\* The map self.get_actions_to_perms_map() returns in the current state
PermsMapOf(self) ==
    IF self \in PolicyInstances
    THEN get_actions_to_perms_map(saved_actions_to_perms_map[self],
                                  default_actions_to_perms_map,
                                  actions_to_perms_map(self)).map
    ELSE WithoutModel_get_actions_to_perms_map(saved_actions_to_perms_map[self],
                                               WithoutModel_actions_to_perms_map(self)).map

\* The state change of a call of self.get_actions_to_perms_map()
GetActionsToPermsMapStep(self) ==
    /\ saved_actions_to_perms_map' =
          [saved_actions_to_perms_map EXCEPT ![self] = SavedMap(PermsMapOf(self))]
    /\ default_actions_to_perms_map' =
          IF self \in PolicyInstances /\ saved_actions_to_perms_map[self].is_none
          THEN ClassDefaultAfterMerge(default_actions_to_perms_map, actions_to_perms_map(self))
          ELSE default_actions_to_perms_map

\* The state change of a call of get_list_actions(viewset)
GetListActionsStep(viewset_class) ==
    /\ saved_permission_list_actions' =
          SavedAfterGetListActions(saved_permission_list_actions, viewset_class)
    /\ discoveries' =
          IF ~HasSavedListActions(saved_permission_list_actions, viewset_class)
             /\ discoveries[viewset_class] < MaxDiscoveries
          THEN [discoveries EXCEPT ![viewset_class] = @ + 1]
          ELSE discoveries

CallSimpleHasPermission ==
    /\ call.op = "none"
    /\ \E user \in Users, permission_required \in PermissionsRequired :
        /\ call' = [op |-> "Simple.has_permission", user |-> user,
                    permission_required |-> permission_required,
                    result |-> SimpleHasPermission(user, permission_required)]
        /\ UNCHANGED <<default_actions_to_perms_map, saved_actions_to_perms_map,
                       saved_permission_list_actions, discoveries>>

CallSimpleHasObjectPermission ==
    /\ call.op = "none"
    /\ \E user \in Users, permission_required \in PermissionsRequired :
        /\ call' = [op |-> "Simple.has_object_permission", user |-> user,
                    permission_required |-> permission_required,
                    result |-> SimpleHasObjectPermission(user, permission_required)]
        /\ UNCHANGED <<default_actions_to_perms_map, saved_actions_to_perms_map,
                       saved_permission_list_actions, discoveries>>

CallGetActionsToPermsMap ==
    /\ call.op = "none"
    /\ \E self \in PolicyInstances :
        /\ GetActionsToPermsMapStep(self)
        /\ call' = [op |-> "get_actions_to_perms_map", self |-> self,
                    result |-> Return(PermsMapOf(self))]
        /\ UNCHANGED <<saved_permission_list_actions, discoveries>>

CallGetPermissionsForAction ==
    /\ call.op = "none"
    /\ \E self \in PolicyInstances, viewset_class \in ViewsetClasses,
       action \in ViewsetActions \ {NoAttr} :
        /\ GetActionsToPermsMapStep(self)
        /\ call' = [op |-> "get_permissions_for_action", self |-> self,
                    viewset_class |-> viewset_class, action |-> action,
                    result |-> get_permissions_for_action(PermsMapOf(self), action, viewset_class)]
        /\ UNCHANGED <<saved_permission_list_actions, discoveries>>

CallGetListActions ==
    /\ call.op = "none"
    /\ \E self \in PolicyInstances, viewset_class \in ViewsetClasses :
        /\ GetListActionsStep(viewset_class)
        /\ call' = [op |-> "get_list_actions", self |-> self,
                    viewset_class |-> viewset_class,
                    result |-> Return(get_list_actions(saved_permission_list_actions, viewset_class))]
        /\ UNCHANGED <<default_actions_to_perms_map, saved_actions_to_perms_map>>

CallHasPermission ==
    /\ call.op = "none"
    /\ \E self \in PolicyInstances, viewset_class \in ViewsetClasses,
       action_attr \in ViewsetActions, request \in Requests,
       user \in Users, kind \in GetObjectKinds :
        LET r == has_permission(PermsMapOf(self),
                                get_list_actions(saved_permission_list_actions, viewset_class),
                                request, action_attr, viewset_class, user, kind)
        IN /\ IF "map" \in r.steps
              THEN GetActionsToPermsMapStep(self)
              ELSE UNCHANGED <<default_actions_to_perms_map, saved_actions_to_perms_map>>
           /\ IF "list" \in r.steps
              THEN GetListActionsStep(viewset_class)
              ELSE UNCHANGED <<saved_permission_list_actions, discoveries>>
           /\ call' = [op |-> "has_permission", self |-> self,
                       viewset_class |-> viewset_class, action |-> action_attr,
                       request |-> request, user |-> user,
                       get_object |-> IF "get_object" \in r.steps THEN kind ELSE "not called",
                       result |-> r.result, steps |-> r.steps]

CallHasObjectPermission ==
    /\ call.op = "none"
    /\ \E self \in PolicyInstances, viewset_class \in ViewsetClasses,
       action_attr \in ViewsetActions, request \in Requests, user \in Users :
        LET r == has_object_permission(PermsMapOf(self), request, action_attr,
                                       viewset_class, user)
        IN /\ IF "map" \in r.steps
              THEN GetActionsToPermsMapStep(self)
              ELSE UNCHANGED <<default_actions_to_perms_map, saved_actions_to_perms_map>>
           /\ call' = [op |-> "has_object_permission", self |-> self,
                       viewset_class |-> viewset_class, action |-> action_attr,
                       request |-> request, user |-> user,
                       result |-> r.result, steps |-> r.steps]
           /\ UNCHANGED <<saved_permission_list_actions, discoveries>>

CallWithoutModelGetPermissionsForAction ==
    /\ call.op = "none"
    /\ \E self \in WithoutModelInstances, action \in ViewsetActions \ {NoAttr} :
        /\ GetActionsToPermsMapStep(self)
        /\ call' = [op |-> "WithoutModel.get_permissions_for_action", self |-> self,
                    action |-> action,
                    result |-> WithoutModel_get_permissions_for_action(PermsMapOf(self), action)]
        /\ UNCHANGED <<saved_permission_list_actions, discoveries>>

CallWithoutModelHasPermission ==
    /\ call.op = "none"
    /\ \E self \in WithoutModelInstances, action_attr \in ViewsetActions,
       request \in Requests, user \in Users :
        LET r == WithoutModel_has_permission(PermsMapOf(self), request, action_attr, user)
        IN /\ IF "map" \in r.steps
              THEN GetActionsToPermsMapStep(self)
              ELSE UNCHANGED <<default_actions_to_perms_map, saved_actions_to_perms_map>>
           /\ call' = [op |-> "WithoutModel.has_permission", self |-> self,
                       action |-> action_attr, request |-> request, user |-> user,
                       result |-> r.result, steps |-> r.steps]
           /\ UNCHANGED <<saved_permission_list_actions, discoveries>>

CallWithoutModelHasObjectPermission ==
    /\ call.op = "none"
    /\ \E self \in WithoutModelInstances, action_attr \in ViewsetActions,
       request \in Requests, user \in Users :
        LET r == WithoutModel_has_object_permission(PermsMapOf(self), request, action_attr, user)
        IN /\ IF "map" \in r.steps
              THEN GetActionsToPermsMapStep(self)
              ELSE UNCHANGED <<default_actions_to_perms_map, saved_actions_to_perms_map>>
           /\ call' = [op |-> "WithoutModel.has_object_permission", self |-> self,
                       action |-> action_attr, request |-> request, user |-> user,
                       result |-> r.result, steps |-> r.steps]
           /\ UNCHANGED <<saved_permission_list_actions, discoveries>>

\* The call returns to the framework, which acts on the result
EndCall ==
    /\ call.op # "none"
    /\ call' = [op |-> "none"]
    /\ UNCHANGED <<default_actions_to_perms_map, saved_actions_to_perms_map,
                   saved_permission_list_actions, discoveries>>

\* Views guarded by SimpleDjangoObjectPermissions
NextSimple ==
    \/ EndCall
    \/ CallSimpleHasPermission
    \/ CallSimpleHasObjectPermission

SpecSimple == Init /\ [][NextSimple]_vars

\* Viewsets guarded by GenericDjangoViewsetPermissions
NextGeneric ==
    \/ EndCall
    \/ CallGetActionsToPermsMap
    \/ CallGetPermissionsForAction
    \/ CallGetListActions
    \/ CallHasPermission
    \/ CallHasObjectPermission

SpecGeneric == Init /\ [][NextGeneric]_vars

\* Viewsets guarded by GenericDjangoViewsetWithoutModelPermissions
NextWithoutModel ==
    \/ EndCall
    \/ CallWithoutModelGetPermissionsForAction
    \/ CallWithoutModelHasPermission
    \/ CallWithoutModelHasObjectPermission

SpecWithoutModel == Init /\ [][NextWithoutModel]_vars

\* The permission lookups of both generic policies
NextLookup ==
    \/ EndCall
    \/ CallGetActionsToPermsMap
    \/ CallGetPermissionsForAction
    \/ CallWithoutModelGetPermissionsForAction

SpecLookup == Init /\ [][NextLookup]_vars

Next ==
    \/ NextSimple
    \/ NextGeneric
    \/ NextWithoutModel

Spec == Init /\ [][Next]_vars

----------------------------------------------------------------------------
(* The claims *)

\* The action a call works with: getattr(viewset, 'action', None)
ActionOf(c) == IF c.action = NoAttr THEN None ELSE c.action

\* The request is an OPTIONS request and settings.DEBUG is set
DebugOptions(c) == c.request.method = "OPTIONS" /\ c.request.DEBUG

\* The action of the call has an entry in the policy's permission map
Mapped(c) == ActionOf(c) \in DOMAIN PermsMapOf(c.self)

\* The permissions the map requires for the call's action, for the viewset's model
RequiredPerms(c) ==
    get_permissions_for_action(PermsMapOf(c.self), ActionOf(c), c.viewset_class).val

\* The principal holds every required permission globally
HoldsGlobally(c) == \A p \in SeqToSet(RequiredPerms(c)) : p \in c.user.global_perms

\* The principal holds every required permission on the object
HoldsOnObject(c) == \A p \in SeqToSet(RequiredPerms(c)) : p \in c.user.obj_perms

\* The call's action is in the set get_list_actions returns for the viewset
ListStyle(c) ==
    ActionOf(c) \in get_list_actions(saved_permission_list_actions, c.viewset_class)

\* What viewset.get_object() does for the call: the failure it raises, if any
GetObjectFailure(c) ==
    IF c.get_object = "missing" THEN "Http404"
    ELSE IF c.get_object = "checked" /\ ~HoldsOnObject(c) THEN "PermissionDenied"
    ELSE "none"

\* C1: SimpleDjangoObjectPermissions.has_object_permission raises
\* AssertionError, and returns no decision, exactly when the principal holds
\* the required permission both on the object and globally; in every other
\* case it returns a boolean.
C1_SecurityInvariantFault ==
    call.op = "Simple.has_object_permission" =>
        IF /\ call.permission_required \in call.user.obj_perms
           /\ call.permission_required \in call.user.global_perms
        THEN call.result.kind = "raise" /\ call.result.val = "AssertionError"
        ELSE call.result.kind = "return" /\ call.result.val \in BOOLEAN

C1_Witness ==
    /\ call.op = "Simple.has_object_permission"
    /\ call.permission_required \in call.user.obj_perms
    /\ call.permission_required \in call.user.global_perms
    /\ call.result = Raise("AssertionError")

\* The permission string a template stands for, for a model: the templates
\* are '%(app_label)s.<verb>_%(model_name)s' or a literal string
Substituted(perm, meta) ==
    IF \E verb \in {"view", "add", "change", "delete"} : perm = Template(verb)
    THEN LET verb == CHOOSE v \in {"view", "add", "change", "delete"} : perm = Template(v)
         IN meta.app_label \o "." \o verb \o "_" \o meta.model_name
    ELSE perm[1]

\* The permission string kept as written
AsWritten(perm) ==
    IF \E verb \in {"view", "add", "change", "delete"} : perm = Template(verb)
    THEN LET verb == CHOOSE v \in {"view", "add", "change", "delete"} : perm = Template(v)
         IN "%(app_label)s." \o verb \o "_%(model_name)s"
    ELSE perm[1]

\* C2: get_permissions_for_action of both policies returns, for an action
\* that is a key of the effective permission map, exactly the mapped list in
\* order, with app_label and model_name substituted into each template
\* (model-aware) or verbatim (model-less); for an action that is not a key
\* (None included, and any action with the empty model-less map) it raises
\* ImproperlyConfigured.
C2_PermissionsForAction ==
    /\ call.op = "get_permissions_for_action" =>
          LET m == saved_actions_to_perms_map[call.self].map
          IN IF call.action \in DOMAIN m
             THEN /\ call.result.kind = "return"
                  /\ Len(call.result.val) = Len(m[call.action])
                  /\ \A i \in 1..Len(m[call.action]) :
                        call.result.val[i] =
                            Substituted(m[call.action][i], ModelMeta(call.viewset_class))
             ELSE call.result = Raise("ImproperlyConfigured")
    /\ call.op = "WithoutModel.get_permissions_for_action" =>
          LET m == WithoutModel_actions_to_perms_map(call.self)
          IN IF call.action \in DOMAIN m
             THEN /\ call.result.kind = "return"
                  /\ Len(call.result.val) = Len(m[call.action])
                  /\ \A i \in 1..Len(m[call.action]) :
                        call.result.val[i] = AsWritten(m[call.action][i])
             ELSE call.result = Raise("ImproperlyConfigured")

C2_Witness ==
    /\ call.op = "get_permissions_for_action"
    /\ call.self = "custom"
    /\ call.viewset_class = "ItemViewSet"
    /\ call.action = "recent"
    /\ call.result = Return(<<"shop.view_item", "reports.run">>)

\* C3: get_actions_to_perms_map returns a map whose entry for each key of the
\* override is the override's value and whose entry for every other key is
\* the default's value, and computing it leaves the class-level
\* default_actions_to_perms_map unchanged, so no instance's merge alters the
\* map another instance sees.
C3_MergeKeepsDefaults ==
    /\ default_actions_to_perms_map = DefaultActionsToPermsMap
    /\ \A self \in PolicyInstances :
          ~saved_actions_to_perms_map[self].is_none =>
              LET m == saved_actions_to_perms_map[self].map
                  o == actions_to_perms_map(self)
              IN /\ DOMAIN m = DOMAIN o \cup DOMAIN DefaultActionsToPermsMap
                 /\ \A k \in DOMAIN o : m[k] = o[k]
                 /\ \A k \in DOMAIN DefaultActionsToPermsMap \ DOMAIN o :
                       m[k] = DefaultActionsToPermsMap[k]
    /\ call.op = "get_actions_to_perms_map" =>
          call.result = Return(saved_actions_to_perms_map[call.self].map)

C3_Witness ==
    /\ call.op = "get_actions_to_perms_map"
    /\ call.self = "plain"
    /\ ~saved_actions_to_perms_map["custom"].is_none
    /\ saved_actions_to_perms_map["custom"].map["create"] = <<>>
    /\ saved_actions_to_perms_map["custom"].map["destroy"] = <<Template("delete")>>
    /\ call.result.val["create"] = <<Template("add")>>

\* C4 as stated: has_permission on a list-style action, for a principal who
\* does not hold all required permissions globally, returns False and never
\* invokes viewset.get_object().
C4_ListActionDenied_AsStated ==
    (/\ call.op = "has_permission"
     /\ ListStyle(call)
     /\ Mapped(call)
     /\ ~HoldsGlobally(call))
    => /\ call.result = Return(FALSE)
       /\ "get_object" \notin call.steps

\* C4, amended: the same, for every request that is not an OPTIONS request
\* made while DEBUG is set.
C4_ListActionDenied ==
    (/\ call.op = "has_permission"
     /\ ~DebugOptions(call)
     /\ ListStyle(call)
     /\ Mapped(call)
     /\ ~HoldsGlobally(call))
    => /\ call.result = Return(FALSE)
       /\ "get_object" \notin call.steps

C4_Witness ==
    /\ call.op = "has_permission"
    /\ call.request = [method |-> "OPTIONS", DEBUG |-> FALSE]
    /\ call.self = "custom"
    /\ call.viewset_class = "ArchiveViewSet"
    /\ call.action = "export"
    /\ call.user.obj_perms = {"blog.view_post"}
    /\ call.user.global_perms = {}
    /\ call.result = Return(FALSE)
    /\ call.get_object = "not called"

\* C5: has_permission for a mapped action, when the principal holds the
\* required permissions globally, returns True for list-style and detail-style
\* actions alike, without invoking viewset.get_object().
C5_GlobalGrant ==
    (/\ call.op = "has_permission"
     /\ Mapped(call)
     /\ HoldsGlobally(call))
    => /\ call.result = Return(TRUE)
       /\ "get_object" \notin call.steps

C5_Witness ==
    /\ call.op = "has_permission"
    /\ call.request = [method |-> "GET", DEBUG |-> TRUE]
    /\ call.self = "plain"
    /\ call.action = "retrieve"
    /\ ~ListStyle(call)
    /\ call.user.global_perms = {"blog.view_post"}
    /\ call.result = Return(TRUE)
    /\ call.get_object = "not called"

\* C6 as stated: has_permission for a mapped action outside the list actions,
\* when the principal lacks the global permissions, invokes
\* viewset.get_object(); it returns True if that returns normally, and the
\* failure get_object raises propagates otherwise; it never returns False.
C6_DetailResolves_AsStated ==
    (/\ call.op = "has_permission"
     /\ Mapped(call)
     /\ ~ListStyle(call)
     /\ ~HoldsGlobally(call))
    => /\ "get_object" \in call.steps
       /\ call.get_object \in GetObjectKinds
       /\ IF GetObjectFailure(call) = "none"
          THEN call.result = Return(TRUE)
          ELSE call.result = Raise(GetObjectFailure(call))

\* C6, amended: the same, for every request that is not an OPTIONS request
\* made while DEBUG is set.
C6_DetailResolves ==
    (/\ call.op = "has_permission"
     /\ ~DebugOptions(call)
     /\ Mapped(call)
     /\ ~ListStyle(call)
     /\ ~HoldsGlobally(call))
    => /\ "get_object" \in call.steps
       /\ call.get_object \in GetObjectKinds
       /\ IF GetObjectFailure(call) = "none"
          THEN call.result = Return(TRUE)
          ELSE call.result = Raise(GetObjectFailure(call))

C6_Witness ==
    /\ call.op = "has_permission"
    /\ ~DebugOptions(call)
    /\ call.self = "plain"
    /\ call.action = "retrieve"
    /\ call.user.global_perms = {}
    /\ call.get_object = "checked"
    /\ call.result = Raise("PermissionDenied")

\* What the normal policy of has_permission answers for a call: the
\* permission-map lookup, the global check, the object resolution
NormalHasPermission(c) ==
    IF ~Mapped(c) THEN Raise("ImproperlyConfigured")
    ELSE IF HoldsGlobally(c) THEN Return(TRUE)
    ELSE IF ListStyle(c) THEN Return(FALSE)
    ELSE IF GetObjectFailure(c) = "none" THEN Return(TRUE)
    ELSE Raise(GetObjectFailure(c))

\* What the normal policy of has_object_permission answers for a call
NormalHasObjectPermission(c) ==
    IF ~Mapped(c) THEN Raise("ImproperlyConfigured")
    ELSE Return(HoldsOnObject(c))

\* C7: in the model-aware policy, has_permission and has_object_permission
\* return True for an OPTIONS request when DEBUG is set, for any action (None,
\* 'metadata' and unmapped actions included), raising nothing and looking up
\* neither the principal nor the map; for OPTIONS with DEBUG off and for any
\* other method the result is that of the normal policy.
C7_DebugOptionsBypass ==
    /\ call.op = "has_permission" =>
          IF DebugOptions(call)
          THEN call.result = Return(TRUE) /\ call.steps = {}
          ELSE call.result = NormalHasPermission(call)
    /\ (call.op = "has_object_permission" /\ call.action # NoAttr) =>
          IF DebugOptions(call)
          THEN call.result = Return(TRUE) /\ call.steps = {}
          ELSE call.result = NormalHasObjectPermission(call)

C7_Witness ==
    /\ call.op = "has_permission"
    /\ call.request = [method |-> "OPTIONS", DEBUG |-> TRUE]
    /\ call.self = "plain"
    /\ call.action = "metadata"
    /\ ~Mapped(call)
    /\ call.user.global_perms = {}
    /\ call.result = Return(TRUE)

\* C8: in the model-less policy, has_permission returns True whenever the
\* viewset's action is None, whatever DEBUG, the method, the principal and
\* the map; for any other action there is no OPTIONS bypass: the result is
\* True iff the principal holds all mapped permissions globally,
\* ImproperlyConfigured if the action is unmapped, and get_object() is never
\* invoked.
C8_WithoutModelHasPermission ==
    call.op = "WithoutModel.has_permission" =>
        LET m == WithoutModel_actions_to_perms_map(call.self)
        IN /\ "get_object" \notin call.steps
           /\ IF ActionOf(call) = None
              THEN call.result = Return(TRUE)
              ELSE IF ActionOf(call) \notin DOMAIN m
              THEN call.result = Raise("ImproperlyConfigured")
              ELSE call.result =
                      Return(\A i \in 1..Len(m[call.action]) :
                                AsWritten(m[call.action][i]) \in call.user.global_perms)

C8_Witness ==
    /\ call.op = "WithoutModel.has_permission"
    /\ call.request = [method |-> "OPTIONS", DEBUG |-> TRUE]
    /\ call.self = "reports"
    /\ call.action = "retrieve"
    /\ call.user.global_perms = {}
    /\ call.result = Return(FALSE)

\* The set the documented discovery yields for a class: the default list
\* routes and every method that declares a non-empty set of verbs, each of
\* them HEAD, GET or POST whatever its case, and whose detail marker is False
DocumentedListActions(viewset_class) ==
    default_list_routes
    \cup {methodname \in Dir(viewset_class) :
            LET method == GetMethod(viewset_class, methodname)
                verbs == IF method.has_bind_to_methods /\ method.bind_to_methods # <<>>
                         THEN SeqToSet(method.bind_to_methods)
                         ELSE IF method.has_mapping THEN method.mapping ELSE {}
            IN /\ verbs # {}
               /\ \A m \in verbs : Lower(m) \in {"head", "get", "post"}
               /\ method.detail = "False"}

\* C9: the set get_list_actions computes for a class is the default list
\* routes plus every method bound to a non-empty set of verbs, all of them
\* HEAD, GET or POST, whose detail marker is exactly False.
C9_ListActionDiscovery ==
    \A viewset_class \in ViewsetClasses :
        saved_permission_list_actions[viewset_class].has =>
            saved_permission_list_actions[viewset_class].set
                = DocumentedListActions(viewset_class)

\* C10: the set get_list_actions returns for a viewset of class C is the set
\* the discovery computes for C itself, whatever classes were asked about
\* before, and the discovery runs at most once per class.
C10_CachePerClass ==
    /\ call.op = "get_list_actions" =>
          call.result = Return(ScanListActions(call.viewset_class))
    /\ \A viewset_class \in ViewsetClasses : discoveries[viewset_class] <= 1

====
